---------------------------- MODULE Spec2Model ----------------------------
(***************************************************************************)
(* A model of changelist's src/changelist/_format.py: the extraction of    *)
(* change notes from pull requests (ChangeNote.from_pull_requests), their  *)
(* classification into sections (MdFormatter._notes_by_section) and the    *)
(* line-wise rendering of the release notes (MdFormatter.iter_lines and    *)
(* the RstFormatter overrides).                                            *)
(*                                                                         *)
(* A Python str is a sequence of one-character strings, None is the empty  *)
(* tuple <<>> and a present optional value x is <<x>>.                     *)
(***************************************************************************)
EXTENDS Integers, Sequences, FiniteSets, TLC

VARIABLES
  pull_requests,   \* from_pull_requests: the argument, a set of pull requests
  pr_summary_regex,\* from_pull_requests: the summary pattern
  todo,            \* from_pull_requests: requests the for loop has not visited
  notes,           \* from_pull_requests: the local set `notes`
  made,            \* from_pull_requests: which match of which request made which note
  epc,             \* from_pull_requests: "idle" | "loop" | "returned"
  self,            \* the formatter's fields (the frozen dataclass)
  cls,             \* class of the formatter: "MdFormatter" | "RstFormatter"
  hash_order,      \* iteration order of sets of notes in the current run
  pc,              \* position of the iter_lines generator
  lines,           \* lines the generator has yielded so far
  document,        \* result of the `document` property: None or <<string>>
  by_section,      \* value of self._notes_by_section held by the for loop
  idx,             \* number of buckets the for loop has visited
  rendered,        \* what the yielded lines stand for (sections, contributors)
  prev             \* the previous finished run of the renderer: None or <<run>>

vars == <<pull_requests, pr_summary_regex, todo, notes, made, epc, self, cls,
          hash_order, pc, lines, document, by_section, idx, rendered, prev>>

extract_vars == <<pull_requests, pr_summary_regex, todo, notes, made, epc>>

render_vars == <<self, cls, hash_order, pc, lines, document, by_section, idx,
                 rendered, prev>>

(***************************************************************************)
(* Bounds of the model.                                                    *)
(***************************************************************************)
MaxBodyLen == 4

MaxNotes == 2

MaxSections == 2

(***************************************************************************)
(* Python values.                                                          *)
(***************************************************************************)
None == <<>>

Some(x) == <<x>>

Min(S) == CHOOSE x \in S : \A y \in S : x <= y

Max(S) == CHOOSE x \in S : \A y \in S : x >= y

\* All strings over alphabet A of length at most n.
StringsUpTo(A, n) == UNION {[1..k -> A] : k \in 0..n}

\* str.isspace for one character.
IsSpace(c) == c \in {" ", "\n", "\r", "\t"}

\* str.strip(): leading and trailing whitespace removed.
Strip(s) ==
  LET keep == {i \in 1..Len(s) : ~IsSpace(s[i])}
  IN  IF keep = {} THEN <<>> ELSE SubSeq(s, Min(keep), Max(keep))

\* str.rstrip("."): trailing period characters removed.
RStripDot(s) ==
  LET keep == {i \in 1..Len(s) : s[i] # "."}
  IN  IF keep = {} THEN <<>> ELSE SubSeq(s, 1, Max(keep))

(***************************************************************************)
(* Strings: code points, str.lower, comparison, str.format, str.split.     *)
(***************************************************************************)
\* The character U+0060 (grave accent), which a TLA+ string cannot hold.
Backtick == "grave"

\* The printable ASCII characters, from code point 32 on.
Printable ==
  <<" ", "!", "\"", "#", "$", "%", "&", "'", "(", ")", "*", "+", ",", "-",
    ".", "/", "0", "1", "2", "3", "4", "5", "6", "7", "8", "9", ":", ";",
    "<", "=", ">", "?", "@", "A", "B", "C", "D", "E", "F", "G", "H", "I",
    "J", "K", "L", "M", "N", "O", "P", "Q", "R", "S", "T", "U", "V", "W",
    "X", "Y", "Z", "[", "\\", "]", "^", "_", Backtick,
    "a", "b", "c", "d", "e",
    "f", "g", "h", "i", "j", "k", "l", "m", "n", "o", "p", "q", "r", "s",
    "t", "u", "v", "w", "x", "y", "z", "{", "|", "}", "~">>

OrdTable ==
  [c \in {Printable[i] : i \in 1..Len(Printable)} |->
     31 + (CHOOSE i \in 1..Len(Printable) : Printable[i] = c)]

\* ord(c)
Ord(c) ==
  CASE c = "\n" -> 10
    [] c = "\r" -> 13
    [] c = "\t" -> 9
    [] OTHER -> OrdTable[c]

\* ord(c.lower())
OrdLower(c) == IF Ord(c) >= 65 /\ Ord(c) <= 90 THEN Ord(c) + 32 ELSE Ord(c)

\* The code points of s.lower().
LowerKey(s) == [i \in 1..Len(s) |-> OrdLower(s[i])]

\* a < b for two sequences of code points, as Python compares strings.
LexLess(a, b) ==
  \E k \in 1..(Len(a) + 1) :
    /\ k <= Len(b)
    /\ \A j \in 1..(k - 1) : a[j] = b[j]
    /\ (k = Len(a) + 1 \/ a[k] < b[k])

\* sorted(items, key=...): items is a sequence of [key, val] records whose
\* keys are sequences of integers; the sort is stable.
Sorted(items) ==
  LET n == Len(items)
      before(i, j) == \/ LexLess(items[i].key, items[j].key)
                      \/ (items[i].key = items[j].key /\ i < j)
      rank(i) == 1 + Cardinality({j \in 1..n : before(j, i)})
  IN  [k \in 1..n |-> items[CHOOSE i \in 1..n : rank(i) = k].val]

\* "".join(parts)
RECURSIVE Join(_)
Join(parts) == IF parts = <<>> THEN <<>> ELSE Head(parts) \o Join(Tail(parts))

Digits == <<"0", "1", "2", "3", "4", "5", "6", "7", "8", "9">>

\* str(n) for a natural number n.
RECURSIVE IntToStr(_)
IntToStr(n) ==
  IF n < 10 THEN <<Digits[n + 1]>>
  ELSE IntToStr(n \div 10) \o <<Digits[(n % 10) + 1]>>

\* A template is a sequence of tokens: a character, or one of the
\* replacement fields "{repo_name}", "{version}" and "{unknown}".
\* template.format(repo_name=..., version=...): None when format raises
\* (a replacement field that is not among the keyword arguments).
Format(template, repo_name, version) ==
  IF \E i \in 1..Len(template) : template[i] = "{unknown}"
  THEN None
  ELSE Some(Join([i \in 1..Len(template) |->
                    CASE template[i] = "{repo_name}" -> repo_name
                      [] template[i] = "{version}" -> version
                      [] OTHER -> <<template[i]>>]))

\* s.split("\n")
RECURSIVE SplitLines(_)
SplitLines(s) ==
  LET nl == {i \in 1..Len(s) : s[i] = "\n"}
  IN  IF nl = {} THEN <<s>>
      ELSE <<SubSeq(s, 1, Min(nl) - 1)>>
           \o SplitLines(SubSeq(s, Min(nl) + 1, Len(s)))

\* s.replace("\r\n", " ")
RECURSIVE ReplaceCRLF(_)
ReplaceCRLF(s) ==
  IF s = <<>> THEN <<>>
  ELSE IF Len(s) >= 2 /\ s[1] = "\r" /\ s[2] = "\n"
  THEN <<" ">> \o ReplaceCRLF(SubSeq(s, 3, Len(s)))
  ELSE <<s[1]>> \o ReplaceCRLF(Tail(s))

\* s.replace(c, t) for a character c and a string t.
ReplaceChar(s, c, t) ==
  Join([i \in 1..Len(s) |-> IF s[i] = c THEN t ELSE <<s[i]>>])

\* re: a summary pattern of the model is an optional bracketed label, a
\* possibly empty run of the label character "x" between "[" and "]" (the
\* named group `label`), followed by the named group `summary`, a non-empty
\* greedy run of characters of the class p.cls.  p.label_group tells whether
\* the pattern has the optional label part.
LabelChars == {"x"}

\* Length of the longest run of characters of class C in s from position i.
Run(C, s, i) ==
  LET stop == {j \in i..Len(s) : s[j] \notin C}
  IN  IF stop = {} THEN Len(s) - i + 1 ELSE Min(stop) - i

\* The match of pattern p in s at position i: None, or <<m>> with the
\* groups of the match and the position after it.
MatchAt(p, s, i) ==
  LET nl == Run(LabelChars, s, i + 1)        \* greedy x*
      close == i + 1 + nl                    \* where "]" must be
      ns == Run(p.cls, s, close + 1)         \* greedy [C]+ after the label
      n0 == Run(p.cls, s, i)                 \* greedy [C]+ without a label
  IN  IF p.label_group /\ s[i] = "[" /\ close <= Len(s) /\ s[close] = "]"
         /\ ns >= 1
      THEN Some([summary |-> SubSeq(s, close + 1, close + ns),
                 label |-> Some(SubSeq(s, i + 1, close - 1)),
                 end |-> close + ns + 1])
      ELSE IF n0 >= 1
      THEN Some([summary |-> SubSeq(s, i, i + n0 - 1),
                 label |-> None,
                 end |-> i + n0])
      ELSE None

\* tuple(pattern.finditer(s)): the non-overlapping matches, left to right.
RECURSIVE FindIterFrom(_, _, _)
FindIterFrom(p, s, i) ==
  IF i > Len(s) THEN <<>>
  ELSE LET m == MatchAt(p, s, i)
       IN  IF m = None THEN FindIterFrom(p, s, i + 1)
           ELSE <<[summary |-> m[1].summary, label |-> m[1].label]>>
                \o FindIterFrom(p, s, m[1].end)

finditer(p, s) == FindIterFrom(p, s, 1)

(***************************************************************************)
(* ChangeNote.from_pull_requests                                           *)
(***************************************************************************)
\* Lines 44-48: the matches of one request, the title when there are none.
\* pr.body is None (<<>>) or <<string>>; "not pr.body" holds of None and "".
Matches(pr, regex) ==
  IF pr.body = None \/ pr.body[1] = <<>> \/ finditer(regex, pr.body[1]) = <<>>
  THEN <<[summary |-> pr.title, label |-> None]>>
  ELSE finditer(regex, pr.body[1])

\* Lines 52-55: the labels of the note made from one match.
MatchLabels(pr, match) ==
  IF match.label # None
  THEN <<match.label[1]>>
  ELSE pr.labels

\* The mutant of NoteOf that keeps the summary unstripped.
NoteOfUnstripped(pr, match) ==
  [content |-> match.summary,
   reference_name |-> <<"#">> \o IntToStr(pr.number),
   reference_url |-> pr.html_url,
   labels |-> MatchLabels(pr, match),
   timestamp |-> pr.merged_at]

\* Lines 57-63: the note made from one match.
NoteOf(pr, match) ==
  [content |-> Strip(match.summary),
   reference_name |-> <<"#">> \o IntToStr(pr.number),
   reference_url |-> pr.html_url,
   labels |-> MatchLabels(pr, match),
   timestamp |-> pr.merged_at]

\* Lines 50-64: the notes one iteration of the outer loop adds.
NotesOf(pr, regex) ==
  LET ms == Matches(pr, regex)
  IN  {NoteOf(pr, ms[k]) : k \in 1..Len(ms)}

(***************************************************************************)
(* re for label_section_map: a pattern of the model is a string of         *)
(* letters, which re.match finds at the start of a label ignoring case,    *)
(* or the string "(", which re.compile rejects.                            *)
(***************************************************************************)
\* Whether re.compile(pattern) returns (and does not raise re.error).
Compiles(pattern) == \A i \in 1..Len(pattern) : pattern[i] # "("

\* regex.match(label) with flags=re.IGNORECASE, as a truth value.
match(pattern, label) ==
  /\ Len(pattern) <= Len(label)
  /\ \A i \in 1..Len(pattern) : OrdLower(pattern[i]) = OrdLower(label[i])

(***************************************************************************)
(* Sets of notes: a run iterates every set of notes in the order of        *)
(* hash_order, a sequence holding each note of self.change_notes once.     *)
(***************************************************************************)
Range(f) == {f[i] : i \in DOMAIN f}

Orders(S) ==
  {f \in [1..Cardinality(S) -> S] : Range(f) = S}

\* list(S) for a set S of notes, under the iteration order `order`.
Iterate(S, order) == SelectSeq(order, LAMBDA n : n \in S)

\* list(S) for a set of users: any order (the code sorts by a key that
\* differs between any two users of the model).
RECURSIVE SetToSeq(_)
SetToSeq(S) ==
  IF S = {} THEN <<>>
  ELSE LET x == CHOOSE y \in S : TRUE IN <<x>> \o SetToSeq(S \ {x})

(***************************************************************************)
(* MdFormatter._notes_by_section                                           *)
(***************************************************************************)
Other == <<"O", "t", "h", "e", "r">>

\* Lines 121-124: the titles of the OrderedDict, in key order.
RECURSIVE Dedup(_)
Dedup(s) ==
  IF s = <<>> THEN <<>>
  ELSE LET init == Dedup(SubSeq(s, 1, Len(s) - 1))
           last == s[Len(s)]
       IN  IF last \in Range(init) THEN init ELSE Append(init, last)

\* The mutant of BucketTitles that puts the "Other" bucket first.
BucketTitlesOtherFirst(label_section_map) ==
  Dedup(<<Other>> \o [i \in 1..Len(label_section_map) |->
                        label_section_map[i].section_name])

BucketTitles(label_section_map) ==
  Dedup([i \in 1..Len(label_section_map) |-> label_section_map[i].section_name]
        \o <<Other>>)

\* The mutant of MatchingSections that looks at a note's first label only.
MatchingSectionsFirstLabel(label_section_map, note) ==
  LET hit == {i \in 1..Len(label_section_map) :
                /\ note.labels # <<>>
                /\ match(label_section_map[i].pattern, note.labels[1])}
  IN  [k \in 1..Cardinality(hit) |->
         label_section_map[CHOOSE i \in hit :
                             Cardinality({j \in hit : j < i}) = k - 1].section_name]

\* Lines 127-131: the list matching_sections of one note.
MatchingSections(label_section_map, note) ==
  LET hit == {i \in 1..Len(label_section_map) :
                \E l \in 1..Len(note.labels) :
                  match(label_section_map[i].pattern, note.labels[l])}
  IN  [k \in 1..Cardinality(hit) |->
         label_section_map[CHOOSE i \in hit :
                             Cardinality({j \in hit : j < i}) = k - 1].section_name]

\* The mutant of BucketOf without the fallback to "Other".
BucketOfNoFallback(label_section_map, change_notes, title) ==
  {note \in change_notes :
     title \in Range(MatchingSections(label_section_map, note))}

\* Lines 126-139: the notes the loop adds to the bucket `title`.
BucketOf(label_section_map, change_notes, title) ==
  {note \in change_notes :
     \/ title \in Range(MatchingSections(label_section_map, note))
     \/ (MatchingSections(label_section_map, note) = <<>> /\ title = Other)}

\* Lines 113-140: the OrderedDict, a sequence of [title, notes] in key
\* order, or None when a pattern of the mapping does not compile.
notes_by_section(fmt) ==
  IF \E i \in 1..Len(fmt.label_section_map) :
       ~Compiles(fmt.label_section_map[i].pattern)
  THEN None
  ELSE LET titles == BucketTitles(fmt.label_section_map)
       IN  Some([k \in 1..Len(titles) |->
                   [title |-> titles[k],
                    notes |-> BucketOf(fmt.label_section_map, fmt.change_notes,
                                       titles[k])]])

(***************************************************************************)
(* The rendering primitives of MdFormatter and their RstFormatter          *)
(* overrides; c is the class of the formatter.                             *)
(***************************************************************************)
Classes == {"MdFormatter", "RstFormatter"}

\* c * n for a character c.
Repeat(c, n) == [i \in 1..n |-> c]

\* Lines 142-147 and 223-227.
sanitize_text(c, text) ==
  LET md == ReplaceChar(ReplaceCRLF(Strip(text)), "\n", <<" ">>)
  IN  IF c = "RstFormatter" THEN ReplaceChar(md, Backtick, <<Backtick, Backtick>>)
      ELSE md

\* Lines 149-150 and 229-230.
format_link(c, name, target) ==
  IF c = "RstFormatter"
  THEN <<Backtick>> \o name \o <<" ", "<">> \o target \o <<">", Backtick, "_">>
  ELSE <<"[">> \o name \o <<"]", "(">> \o target \o <<")">>

\* Lines 234: the underline characters of RstFormatter.
underline(level) == CASE level = 1 -> "=" [] level = 2 -> "-" [] level = 3 -> "~"

\* Lines 152-153 and 232-235: the lines of a heading.
format_section_title(c, title, level) ==
  IF c = "RstFormatter"
  THEN <<title \o <<"\n">>, Repeat(underline(level), Len(title)) \o <<"\n">>>>
  ELSE <<Repeat("#", level) \o <<" ">> \o title \o <<"\n">>>>

\* Lines 155-160: the line of one change note.
format_change_note(c, note) ==
  <<"-", " ">> \o RStripDot(sanitize_text(c, note.content)) \o <<" ", "(">>
  \o format_link(c, note.reference_name, note.reference_url)
  \o <<")", ".", "\n">>

\* The mutant of SortedNotes that sorts the latest note first.
SortedNotesDescending(section_notes, order) ==
  LET items == Iterate(section_notes, order)
  IN  Sorted([i \in 1..Len(items) |->
                [key |-> <<0 - items[i].timestamp>>, val |-> items[i]]])

\* Line 170: sorted(notes, key=lambda note: note.timestamp).
SortedNotes(section_notes, order) ==
  LET items == Iterate(section_notes, order)
  IN  Sorted([i \in 1..Len(items) |->
                [key |-> <<items[i].timestamp>>, val |-> items[i]]])

\* Lines 162-172: the lines of one change section.
format_change_section(c, title, section_notes, order) ==
  IF section_notes = {} THEN <<>>
  ELSE LET items == SortedNotes(section_notes, order)
       IN  format_section_title(c, title, 2) \o <<<<"\n">>>>
           \o [i \in 1..Len(items) |-> format_change_note(c, items[i])]
           \o <<<<"\n">>>>

\* Lines 174-179: the line of one contributor.
format_user_line(c, user) ==
  LET link == format_link(c, <<"@">> \o user.login, user.html_url)
  IN  <<"-", " ">>
      \o (IF user.name # <<>> THEN user.name \o <<" ", "(">> \o link \o <<")">>
          ELSE link)
      \o <<"\n">>

\* The mutant of Kept that ignores nobody.
KeptAll(users, ignored_user_logins) == users

\* Lines 187-188: the users whose login is not ignored.
Kept(users, ignored_user_logins) ==
  {u \in users : u.login \notin Range(ignored_user_logins)}

\* Lines 195-196: the users in the order of their sorted lines.
SortedUsers(c, users) ==
  LET items == SetToSeq(users)
  IN  Sorted([i \in 1..Len(items) |->
                [key |-> LowerKey(format_user_line(c, items[i])),
                 val |-> items[i]]])

\* Lines 193 and 199: the number in the count line.
CountOf(users, ignored_user_logins) ==
  Cardinality(Kept(users, ignored_user_logins))

AuthorsAdded ==
  <<" ", "a", "u", "t", "h", "o", "r", "s", " ", "a", "d", "d", "e", "d",
    " ", "t", "o", " ", "t", "h", "i", "s", " ", "r", "e", "l", "e", "a",
    "s", "e", " ", "(", "a", "l", "p", "h", "a", "b", "e", "t", "i", "c",
    "a", "l", "l", "y", ")", ":", "\n">>

ReviewersAdded ==
  <<" ", "r", "e", "v", "i", "e", "w", "e", "r", "s", " ", "a", "d", "d",
    "e", "d", " ", "t", "o", " ", "t", "h", "i", "s", " ", "r", "e", "l",
    "e", "a", "s", "e", " ", "(", "a", "l", "p", "h", "a", "b", "e", "t",
    "i", "c", "a", "l", "l", "y", ")", ":", "\n">>

Contributors == <<"C", "o", "n", "t", "r", "i", "b", "u", "t", "o", "r", "s">>

\* Lines 193-197 and 199-203: a count line, a blank line, the lines of the
\* users and a blank line.
UserList(c, users, ignored_user_logins, added) ==
  LET kept == SortedUsers(c, Kept(users, ignored_user_logins))
  IN  <<IntToStr(CountOf(users, ignored_user_logins)) \o added, <<"\n">>>>
      \o [i \in 1..Len(kept) |-> format_user_line(c, kept[i])]
      \o <<<<"\n">>>>

\* Lines 181-203: the lines of the contributor section.
format_contributor_section(c, fmt) ==
  format_section_title(c, Contributors, 2) \o <<<<"\n">>>>
  \o UserList(c, fmt.authors, fmt.ignored_user_logins, AuthorsAdded)
  \o UserList(c, fmt.reviewers, fmt.ignored_user_logins, ReviewersAdded)

\* Lines 205-210 and 212-217: the lines of a formatted template.
TemplateLines(text) ==
  LET parts == SplitLines(text)
  IN  [i \in 1..Len(parts) |-> parts[i] \o <<"\n">>]

(***************************************************************************)
(* The inputs of from_pull_requests.                                       *)
(***************************************************************************)
BodyChars == {"a", " ", "[", "]", "x"}

Bodies == {None} \cup {Some(s) : s \in StringsUpTo(BodyChars, MaxBodyLen)}

Titles == {<<" ", "t", " ">>, <<"t">>}

RequestLabels == {<<>>, <<<<"b", "u", "g">>>>}

\* Patterns whose summary is a run of "a", or a run of "a" and blanks.
Patterns == [cls : {{"a"}, {"a", " "}}, label_group : BOOLEAN]

FirstRequests ==
  [number : {1}, title : Titles, body : Bodies, html_url : {<<"/", "1">>},
   labels : RequestLabels, merged_at : {1}]

SecondRequest ==
  [number |-> 2, title |-> <<"t">>, body |-> Some(<<"a", " ", "a">>),
   html_url |-> <<"/", "2">>, labels |-> <<<<"d", "o", "c">>>>, merged_at |-> 2]

\* The renderer is not running.
RenderIdle ==
  /\ self = None
  /\ cls = "MdFormatter"
  /\ hash_order = <<>>
  /\ pc = "idle"
  /\ lines = <<>>
  /\ document = None
  /\ by_section = <<>>
  /\ idx = 0
  /\ rendered = None
  /\ prev = None

\* The state after line 42, notes = set(), for each input of the model.
InitExtract ==
  /\ \E pr \in FirstRequests :
       pull_requests \in {{pr}, {pr, SecondRequest}}
  /\ pr_summary_regex \in Patterns
  /\ todo = pull_requests
  /\ notes = {}
  /\ made = {}
  /\ epc = "loop"
  /\ RenderIdle

\* Lines 43-64: one iteration of `for pr in pull_requests`.
AddNotes(pr) ==
  /\ epc = "loop"
  /\ pr \in todo
  /\ todo' = todo \ {pr}
  /\ notes' = notes \cup NotesOf(pr, pr_summary_regex)
  /\ made' = made \cup
       {[pr |-> pr, match |-> m, note |-> NoteOf(pr, m)] :
          m \in {Matches(pr, pr_summary_regex)[k] :
                   k \in 1..Len(Matches(pr, pr_summary_regex))}}
  /\ UNCHANGED <<pull_requests, pr_summary_regex, epc>>
  /\ UNCHANGED render_vars

\* Line 65: return notes.
Return ==
  /\ epc = "loop"
  /\ todo = {}
  /\ epc' = "returned"
  /\ UNCHANGED <<pull_requests, pr_summary_regex, todo, notes, made>>
  /\ UNCHANGED render_vars

NextExtract ==
  \/ \E pr \in pull_requests : AddNotes(pr)
  \/ Return

SpecExtract == InitExtract /\ [][NextExtract]_vars

(***************************************************************************)
(* MdFormatter.iter_lines, a generator: one action for each stretch of     *)
(* its code between the points where it hands lines to its consumer.       *)
(***************************************************************************)
\* from_pull_requests is not running.
ExtractIdle ==
  /\ pull_requests = {}
  /\ pr_summary_regex = None
  /\ todo = {}
  /\ notes = {}
  /\ made = {}
  /\ epc = "idle"

NothingRendered == [sections |-> <<>>, contributors |-> None]

\* A formatter of class cls over the inputs F, its generator not started.
InitRender(F) ==
  /\ ExtractIdle
  /\ self \in F
  /\ cls \in Classes
  /\ hash_order \in Orders(self.change_notes)
  /\ pc = "title"
  /\ lines = <<>>
  /\ document = None
  /\ by_section = <<>>
  /\ idx = 0
  /\ rendered = NothingRendered
  /\ prev = None

\* An exception leaves the generator: nothing more is yielded, and the
\* `document` property returns nothing.
Raise ==
  /\ pc' = "raised"
  /\ UNCHANGED <<lines, document, by_section, idx, rendered>>

\* Lines 102-106: the title and a blank line.
YieldTitle ==
  /\ pc = "title"
  /\ LET title == Format(self.title_template, self.repo_name, self.version)
     IN  IF title = None THEN Raise
         ELSE /\ lines' = lines \o format_section_title(cls, title[1], 1)
                                \o <<<<"\n">>>>
              /\ pc' = "intro"
              /\ UNCHANGED <<document, by_section, idx, rendered>>
  /\ UNCHANGED <<self, cls, hash_order, prev>>
  /\ UNCHANGED extract_vars

\* Lines 107 and 205-210: the intro.
YieldIntro ==
  /\ pc = "intro"
  /\ LET intro == Format(self.intro_template, self.repo_name, self.version)
     IN  IF intro = None THEN Raise
         ELSE /\ lines' = lines \o TemplateLines(intro[1])
              /\ pc' = "sections"
              /\ UNCHANGED <<document, by_section, idx, rendered>>
  /\ UNCHANGED <<self, cls, hash_order, prev>>
  /\ UNCHANGED extract_vars

\* Line 108: the for statement evaluates self._notes_by_section.
NotesBySection ==
  /\ pc = "sections"
  /\ LET buckets == notes_by_section(self)
     IN  IF buckets = None THEN Raise
         ELSE /\ by_section' = buckets[1]
              /\ idx' = 0
              /\ pc' = "section"
              /\ UNCHANGED <<lines, document, rendered>>
  /\ UNCHANGED <<self, cls, hash_order, prev>>
  /\ UNCHANGED extract_vars

\* Lines 108-109 and 162-172: one iteration of the loop over the buckets.
YieldChangeSection ==
  /\ pc = "section"
  /\ idx < Len(by_section)
  /\ LET bucket == by_section[idx + 1]
     IN  /\ lines' = lines \o format_change_section(cls, bucket.title,
                                                    bucket.notes, hash_order)
         /\ rendered' =
              IF bucket.notes = {} THEN rendered
              ELSE [rendered EXCEPT !.sections =
                      Append(@, [title |-> bucket.title,
                                 items |-> SortedNotes(bucket.notes, hash_order)])]
  /\ idx' = idx + 1
  /\ UNCHANGED <<pc, document, by_section>>
  /\ UNCHANGED <<self, cls, hash_order, prev>>
  /\ UNCHANGED extract_vars

\* Lines 110 and 181-203: the contributor section.
YieldContributors ==
  /\ pc = "section"
  /\ idx = Len(by_section)
  /\ lines' = lines \o format_contributor_section(cls, self)
  /\ rendered' =
       [rendered EXCEPT !.contributors =
          Some([n_authors |-> CountOf(self.authors, self.ignored_user_logins),
                authors |-> SortedUsers(cls, Kept(self.authors,
                                                  self.ignored_user_logins)),
                n_reviewers |-> CountOf(self.reviewers, self.ignored_user_logins),
                reviewers |-> SortedUsers(cls, Kept(self.reviewers,
                                                    self.ignored_user_logins))])]
  /\ pc' = "outro"
  /\ UNCHANGED <<document, by_section, idx>>
  /\ UNCHANGED <<self, cls, hash_order, prev>>
  /\ UNCHANGED extract_vars

\* Lines 111 and 212-217: the outro; the generator is then exhausted, and
\* line 98 (the `document` property) joins the lines it got.
YieldOutro ==
  /\ pc = "outro"
  /\ LET outro == Format(self.outro_template, self.repo_name, self.version)
     IN  IF outro = None THEN Raise
         ELSE /\ lines' = lines \o TemplateLines(outro[1])
              /\ document' = Some(Join(lines'))
              /\ pc' = "done"
              /\ UNCHANGED <<by_section, idx, rendered>>
  /\ UNCHANGED <<self, cls, hash_order, prev>>
  /\ UNCHANGED extract_vars

\* The same inputs are rendered once more, by a formatter of class c in a
\* run whose sets of notes iterate in the order `order`.
NewRun(c, order) ==
  /\ pc \in {"done", "raised"}
  /\ prev = None
  /\ prev' = Some([cls |-> cls, hash_order |-> hash_order, pc |-> pc,
                   lines |-> lines, document |-> document,
                   rendered |-> rendered])
  /\ cls' = c
  /\ hash_order' = order
  /\ pc' = "title"
  /\ lines' = <<>>
  /\ document' = None
  /\ by_section' = <<>>
  /\ idx' = 0
  /\ rendered' = NothingRendered
  /\ UNCHANGED self
  /\ UNCHANGED extract_vars

NextRender ==
  \/ YieldTitle
  \/ YieldIntro
  \/ NotesBySection
  \/ YieldChangeSection
  \/ YieldContributors
  \/ YieldOutro

NextRerun ==
  \/ NextRender
  \/ \E c \in Classes : \E order \in Orders(self.change_notes) : NewRun(c, order)

(***************************************************************************)
(* The inputs of the formatter.                                            *)
(***************************************************************************)
\* The notes of two requests, #1 merged at 2 and #2 merged at 1: each note
\* has labels of its own and a summary of its own.
NoteKinds ==
  {[labels |-> <<>>, tag |-> "x"],
   [labels |-> <<<<"B", "u", "g">>>>, tag |-> "y"],
   [labels |-> <<<<"b", "u", "g">>, <<"n", "e", "w">>>>, tag |-> "z"]}

NotePool ==
  {[content |-> <<"F", "\n", k.tag, ".">>, reference_name |-> <<"#", "1">>,
    reference_url |-> <<"/", "1">>, labels |-> k.labels, timestamp |-> 2] :
     k \in NoteKinds}
  \cup
  {[content |-> <<"A", Backtick>>, reference_name |-> <<"#", "2">>,
    reference_url |-> <<"/", "2">>, labels |-> <<<<"B", "u", "g">>>>,
    timestamp |-> 1]}

NoteSets(n) == {S \in SUBSET NotePool : Cardinality(S) <= n}

SectionNames == {<<"B", "u", "g", "s">>, <<"N", "e", "w">>, Other}

\* The ordered mappings of at most n of the patterns P to section names.
Maps(P, n) ==
  {m \in UNION {[1..k -> [pattern : P, section_name : SectionNames]] : k \in 0..n} :
     \A i, j \in 1..Len(m) : m[i].pattern = m[j].pattern => i = j}

User(login, name) ==
  [login |-> login, name |-> name, html_url |-> <<"/">> \o login]

Bob == User(<<"b", "o", "b">>, <<>>)

Al == User(<<"A", "l">>, <<>>)

Cy == User(<<"c", "y">>, <<"_", "C">>)

Di == User(<<"d", "i">>, <<"D", "i">>)

Users == {Bob, Al, Cy, Di}

Base ==
  [repo_name |-> <<"r">>,
   version |-> <<"1">>,
   change_notes |-> {},
   authors |-> {Bob},
   reviewers |-> {},
   title_template |-> <<"{repo_name}", " ", "{version}">>,
   intro_template |-> <<"I", "\n", "{version}">>,
   outro_template |-> <<"O">>,
   label_section_map |-> <<>>,
   ignored_user_logins |-> <<>>]

\* Notes and mappings vary.
SectionFormatters ==
  {[Base EXCEPT !.change_notes = n, !.label_section_map = m] :
     n \in NoteSets(MaxNotes),
     m \in Maps({<<"b">>, <<"n">>, <<>>}, MaxSections)}

\* Contributors and ignored logins vary.
ContribFormatters ==
  {[Base EXCEPT !.authors = a, !.reviewers = r, !.ignored_user_logins = i] :
     a \in SUBSET Users, r \in SUBSET Users,
     i \in {<<>>, <<Bob.login>>, <<Cy.login, Al.login>>, <<<<"B", "o", "b">>>>}}

\* Templates and patterns may be malformed.
FaultyFormatters ==
  {[Base EXCEPT !.change_notes = n, !.label_section_map = m,
                !.title_template = t, !.intro_template = i,
                !.outro_template = o] :
     n \in NoteSets(1),
     m \in Maps({<<"b">>, <<"(">>}, MaxSections),
     t \in {Base.title_template, <<"{unknown}">>},
     i \in {Base.intro_template, <<"I", "{unknown}">>},
     o \in {Base.outro_template, <<"{unknown}">>}}

\* Notes and contributors vary; the mapping has one section.
RerunFormatters ==
  {[Base EXCEPT !.change_notes = n, !.authors = a, !.reviewers = r,
                !.label_section_map =
                   <<[pattern |-> <<"b">>,
                      section_name |-> <<"B", "u", "g", "s">>]>>] :
     n \in NoteSets(MaxNotes),
     a \in SUBSET {Bob, Al, Cy},
     r \in {{}, {Cy, Di}}}

Init == InitRender(SectionFormatters)

Spec == Init /\ [][NextRender]_vars

SpecContrib == InitRender(ContribFormatters) /\ [][NextRender]_vars

SpecFaulty == InitRender(FaultyFormatters) /\ [][NextRender]_vars

SpecRerun == InitRender(RerunFormatters) /\ [][NextRerun]_vars

(***************************************************************************)
(* Properties of ChangeNote.from_pull_requests (under SpecExtract).        *)
(***************************************************************************)
ReferenceName(pr) == <<"#">> \o IntToStr(pr.number)

\* The notes of the result that refer to the request pr.
NotesFor(pr) == {n \in notes : n.reference_name = ReferenceName(pr)}

\* C1: every match whose label capture is absent or the empty string makes
\* a note whose labels are the request's own label names; an empty capture
\* never makes a note whose labels is the tuple holding the empty string.
C1_EmptyCaptureUsesRequestLabels ==
  \A t \in made :
    t.match.label \in {None, Some(<<>>)} =>
      /\ t.note \in notes
      /\ t.note.labels = t.pr.labels
      /\ t.note.labels # <<<<>>>>

\* The body of pr is absent, empty or made of whitespace only.
BlankBody(pr) ==
  pr.body = None \/ \A i \in 1..Len(pr.body[1]) : IsSpace(pr.body[1][i])

\* The result holds exactly one note for pr, whose content is the
\* stripped title.
OneTitleNote(pr) ==
  /\ Cardinality(NotesFor(pr)) = 1
  /\ \A n \in NotesFor(pr) : n.content = Strip(pr.title)

\* C2 as stated: for every request whose body is absent, empty or
\* whitespace-only, and every summary pattern, the result holds exactly one
\* note for the request, whose content is the stripped title.
C2_BlankBodyYieldsTitle ==
  epc = "returned" =>
    \A pr \in pull_requests : BlankBody(pr) => OneTitleNote(pr)

\* The summary pattern has no match in the body of pr: no position of the
\* body holds a character of the pattern's summary class.
NoMatchInBody(pr) ==
  \A i \in 1..Len(pr.body[1]) : pr.body[1][i] \notin pr_summary_regex.cls

\* C2 as amended: for every request whose body is absent or empty, or in
\* whose body the summary pattern has no match, the result holds exactly
\* one note for the request, whose content is the stripped title.
C2_NoMatchYieldsTitle ==
  epc = "returned" =>
    \A pr \in pull_requests :
      (pr.body = None \/ pr.body[1] = <<>> \/ NoMatchInBody(pr))
        => OneTitleNote(pr)

\* A request with a whitespace-only body the pattern does not match, and a
\* title with surrounding whitespace, has been processed.
C2_Witness ==
  /\ epc = "returned"
  /\ \E pr \in pull_requests :
       /\ pr.body # None
       /\ pr.body[1] # <<>>
       /\ BlankBody(pr)
       /\ NoMatchInBody(pr)
       /\ pr.title # Strip(pr.title)
       /\ OneTitleNote(pr)

(***************************************************************************)
(* Properties of the renderer.                                             *)
(***************************************************************************)
\* self._notes_by_section has been evaluated without raising.
Classified == pc \in {"section", "outro", "done"}

\* The change sections have all been yielded.
SectionsYielded == pc \in {"outro", "done"}

\* The titles of the buckets that hold the note.
BucketsHolding(note) ==
  {by_section[k].title : k \in {j \in 1..Len(by_section) :
                                  note \in by_section[j].notes}}

\* Some label of the note is matched by the pattern of entry i of the
\* configured mapping.
EntryMatches(i, note) ==
  \E l \in 1..Len(note.labels) :
    match(self.label_section_map[i].pattern, note.labels[l])

Unmatched(note) ==
  \A i \in 1..Len(self.label_section_map) : ~EntryMatches(i, note)

\* C3: after _notes_by_section every note is in at least one bucket, and a
\* note none of whose labels is matched by a configured pattern is in the
\* "Other" bucket and in no other bucket.
C3_EveryNoteClassified ==
  Classified =>
    \A note \in self.change_notes :
      /\ BucketsHolding(note) # {}
      /\ Unmatched(note) => BucketsHolding(note) = {Other}

\* An unmatched note has been classified under a mapping that has a section
\* other than "Other", next to a matched note.
C3_Witness ==
  /\ Classified
  /\ Len(by_section) >= 2
  /\ \E note \in self.change_notes :
       Unmatched(note) /\ BucketsHolding(note) = {Other}
  /\ \E note \in self.change_notes : ~Unmatched(note)

\* The titles in s, each once, in the order of their first occurrence.
FirstOccurrences(s) ==
  LET firsts == {i \in 1..Len(s) : \A j \in 1..(i - 1) : s[j] # s[i]}
  IN  [k \in 1..Cardinality(firsts) |->
         s[CHOOSE i \in firsts : Cardinality({j \in firsts : j < i}) = k - 1]]

ConfiguredTitles ==
  [i \in 1..Len(self.label_section_map) |-> self.label_section_map[i].section_name]

\* The bucket of this title holds at least one note.
HoldsNotes(title) ==
  \E k \in 1..Len(by_section) :
    by_section[k].title = title /\ by_section[k].notes # {}

\* The titles of the rendered level-2 change-section headings, in order.
RenderedTitles ==
  [k \in 1..Len(rendered.sections) |-> rendered.sections[k].title]

\* The lines of the document before the first change section.
HeadLines ==
  format_section_title(cls, Format(self.title_template, self.repo_name,
                                   self.version)[1], 1)
  \o <<<<"\n">>>>
  \o TemplateLines(Format(self.intro_template, self.repo_name, self.version)[1])

\* The lines of one rendered section: heading, blank line, one line for
\* each item, blank line.
SectionBlock(section) ==
  format_section_title(cls, section.title, 2) \o <<<<"\n">>>>
  \o [i \in 1..Len(section.items) |-> format_change_note(cls, section.items[i])]
  \o <<<<"\n">>>>

\* The lines of all rendered sections.
SectionBlocks ==
  Join([k \in 1..Len(rendered.sections) |-> SectionBlock(rendered.sections[k])])

\* Between the intro and the contributor section the document holds the
\* blocks of the rendered sections and nothing else.
OnlyRenderedSections ==
  LET body == HeadLines \o SectionBlocks
  IN  /\ SubSeq(lines, 1, Len(body)) = body
      /\ lines[Len(body) + 1] = format_section_title(cls, Contributors, 2)[1]

\* C4 as stated: the level-2 change-section headings are the titles of the
\* buckets that hold a note, each once, in the order of the configured
\* mapping with "Other" after all configured sections; a section without
\* notes emits no heading and no lines.
C4_HeadingsOtherLast ==
  SectionsYielded =>
    /\ RenderedTitles =
         SelectSeq(FirstOccurrences(SelectSeq(ConfiguredTitles,
                                              LAMBDA t : t # Other)
                                    \o <<Other>>),
                   HoldsNotes)
    /\ OnlyRenderedSections

\* C4 as amended: the headings are the titles of the buckets that hold a
\* note, each once, in the order in which the titles first occur in the
\* configured mapping, "Other" coming after all configured sections unless
\* it is itself a configured title (it then keeps its configured place); a
\* section without notes emits no heading and no lines.
C4_HeadingsInBucketOrder ==
  SectionsYielded =>
    /\ RenderedTitles =
         SelectSeq(FirstOccurrences(ConfiguredTitles \o <<Other>>), HoldsNotes)
    /\ OnlyRenderedSections

\* A document whose first heading is "Other", a configured title, and
\* whose second heading is the configured title that follows it.
C4_Witness ==
  /\ pc = "done"
  /\ Len(ConfiguredTitles) = 2
  /\ ConfiguredTitles[1] = Other
  /\ ConfiguredTitles[2] # Other
  /\ RenderedTitles = ConfiguredTitles
  /\ OnlyRenderedSections

\* A document without a heading for the first configured section, which
\* holds no note, and with "Other" after the second configured section.
C4_WitnessOtherLast ==
  /\ pc = "done"
  /\ Len(ConfiguredTitles) = 2
  /\ ~HoldsNotes(ConfiguredTitles[1])
  /\ Other \notin Range(ConfiguredTitles)
  /\ RenderedTitles = <<ConfiguredTitles[2], Other>>
  /\ OnlyRenderedSections

\* How often the note is an item of the rendered section.
TimesIn(section, note) ==
  Cardinality({i \in 1..Len(section.items) : section.items[i] = note})

\* How often the note is rendered under the title.
TimesUnder(title, note) ==
  LET ks == {k \in 1..Len(rendered.sections) : rendered.sections[k].title = title}
  IN  IF ks = {} THEN 0
      ELSE IF Cardinality(ks) > 1 THEN 2
      ELSE TimesIn(rendered.sections[CHOOSE k \in ks : TRUE], note)

\* C5: a note whose labels are matched by the patterns of two different
\* configured sections is rendered under both of them, under each exactly
\* once; no note is rendered twice in one section.
C5_BothSectionsOnce ==
  SectionsYielded =>
    /\ \A note \in self.change_notes :
         \A i, j \in 1..Len(self.label_section_map) :
           (/\ ConfiguredTitles[i] # ConfiguredTitles[j]
            /\ EntryMatches(i, note)
            /\ EntryMatches(j, note))
             => /\ TimesUnder(ConfiguredTitles[i], note) = 1
                /\ TimesUnder(ConfiguredTitles[j], note) = 1
    /\ \A k \in 1..Len(rendered.sections) :
         \A note \in self.change_notes : TimesIn(rendered.sections[k], note) <= 1
    /\ OnlyRenderedSections

\* A note with two labels, each matched by the pattern of another section,
\* has been rendered.
C5_Witness ==
  /\ pc = "done"
  /\ Len(self.label_section_map) = 2
  /\ ConfiguredTitles[1] # ConfiguredTitles[2]
  /\ \E note \in self.change_notes :
       /\ Len(note.labels) = 2
       /\ match(self.label_section_map[1].pattern, note.labels[1])
       /\ ~match(self.label_section_map[1].pattern, note.labels[2])
       /\ match(self.label_section_map[2].pattern, note.labels[2])
       /\ TimesUnder(ConfiguredTitles[1], note) = 1
       /\ TimesUnder(ConfiguredTitles[2], note) = 1

\* A note whose two labels lead to the same section, through two patterns,
\* has been rendered once under it.
C5_WitnessSameSection ==
  /\ pc = "done"
  /\ Len(self.label_section_map) = 2
  /\ ConfiguredTitles[1] = ConfiguredTitles[2]
  /\ \E note \in self.change_notes :
       /\ EntryMatches(1, note)
       /\ EntryMatches(2, note)
       /\ TimesUnder(ConfiguredTitles[1], note) = 1

\* C6: rendering has no partial output: when rendering fails, no line has
\* been handed to the line-wise consumer (iter_lines, __iter__) and the
\* whole-string consumer (document, __str__) got nothing.
C6_NoPartialOutput ==
  pc = "raised" => (lines = <<>> /\ document = None)

\* The whole-string half of C6: a failed rendering returns no document.
C6_DocumentAllOrNothing ==
  /\ pc = "raised" => document = None
  /\ document # None => pc = "done"

\* Both finished runs ended normally.
TwoDocuments ==
  /\ prev # None
  /\ pc = "done"
  /\ prev[1].pc = "done"

\* C7: for the same inputs MdFormatter and RstFormatter render the same
\* sections in the same order, the same notes in the same order in each
\* section, and the same authors and reviewers in the same order.
C7_SameStructure ==
  (TwoDocuments /\ prev[1].cls # cls /\ prev[1].hash_order = hash_order)
    => rendered = prev[1].rendered

\* The part of C7 about the change sections.
C7_SameSections ==
  (TwoDocuments /\ prev[1].cls # cls /\ prev[1].hash_order = hash_order)
    => rendered.sections = prev[1].rendered.sections

\* C8: two renderings of the same inputs by the same class of formatter
\* produce the same lines and the same document, also when two notes of a
\* section have equal timestamps.
C8_Deterministic ==
  (TwoDocuments /\ prev[1].cls = cls)
    => (lines = prev[1].lines /\ document = prev[1].document)

\* C9: in every rendered change section the note lines are in
\* non-decreasing order of the notes' timestamps.
C9_SectionsSortedByTimestamp ==
  SectionsYielded =>
    /\ \A k \in 1..Len(rendered.sections) :
         \A i, j \in 1..Len(rendered.sections[k].items) :
           i < j => rendered.sections[k].items[i].timestamp
                      <= rendered.sections[k].items[j].timestamp
    /\ OnlyRenderedSections

\* A section with two notes of different timestamps has been rendered from
\* a set that iterates the later note first.
C9_Witness ==
  /\ pc = "done"
  /\ \E k \in 1..Len(rendered.sections) :
       /\ Len(rendered.sections[k].items) = 2
       /\ rendered.sections[k].items[1].timestamp
            < rendered.sections[k].items[2].timestamp
       /\ Iterate(by_section[CHOOSE b \in 1..Len(by_section) :
                               by_section[b].title = rendered.sections[k].title].notes,
                  hash_order)[1] = rendered.sections[k].items[2]

\* The lines of one contributor list: the count line, a blank line, one
\* line for each listed user, a blank line.
ListBlock(n, users, added) ==
  <<IntToStr(n) \o added, <<"\n">>>>
  \o [i \in 1..Len(users) |-> format_user_line(cls, users[i])]
  \o <<<<"\n">>>>

Ignored(u) == u.login \in Range(self.ignored_user_logins)

\* C10: no contributor whose login is ignored has a line in the author or
\* the reviewer list, and the number in each count line is the number of
\* contributor lines of that list.
C10_IgnoredNeverListed ==
  SectionsYielded =>
    LET c == rendered.contributors[1]
        from == Len(HeadLines) + Len(SectionBlocks)
                  + Len(format_section_title(cls, Contributors, 2)) + 2
        block == ListBlock(c.n_authors, c.authors, AuthorsAdded)
                 \o ListBlock(c.n_reviewers, c.reviewers, ReviewersAdded)
    IN  /\ SubSeq(lines, from, from + Len(block) - 1) = block
        /\ c.n_authors = Len(c.authors)
        /\ c.n_reviewers = Len(c.reviewers)
        /\ \A u \in Range(c.authors) \cup Range(c.reviewers) : ~Ignored(u)
        /\ \A u \in self.authors \cup self.reviewers :
             Ignored(u) => format_user_line(cls, u) \notin Range(lines)

\* An ignored author and an ignored reviewer have been left out of lists
\* that hold other users.
C10_Witness ==
  /\ pc = "done"
  /\ \E u \in self.authors : Ignored(u)
  /\ \E u \in self.reviewers : Ignored(u)
  /\ rendered.contributors[1].n_authors >= 2
  /\ rendered.contributors[1].n_reviewers >= 1

=============================================================================
